---------------------------- MODULE Spec2Model ----------------------------
(***************************************************************************)
(* A model of the go-vban package (src/vban): the 28-byte header codec,    *)
(* packet framing with its size limits, and the UDP transport endpoint     *)
(* (Conn) with its Open/Closed life cycle.                                 *)
(*                                                                         *)
(* Bytes are naturals 0..255, byte slices are sequences (1-based here,     *)
(* 0-based in Go).  uint8 arithmetic is taken modulo 256.  uint32 values   *)
(* are naturals below 2^31 (the model checker's integer range); the codec  *)
(* does no arithmetic on them, only splits them into bytes and back.       *)
(***************************************************************************)
EXTENDS Integers, Sequences, FiniteSets, TLC

VARIABLES
    h,          \* header codec: the caller's Header object
    hret,       \* header codec: what the last header operation returned
    heap,       \* packet framing: the backing arrays of the byte slices, by array id
    pk,         \* packet framing: the caller's *Packet from NewPacket (or Nil)
    wire,       \* packet framing: the slice the last Packet.MarshalBinary returned
    qk,         \* packet framing: the *Packet the last UnmarshalBinary returned (or Nil)
    pret,       \* packet framing: what the last packet operation returned
    nwrites,    \* packet framing: how many bytes the caller has overwritten
    udpConn,    \* Conn.udpConn: Nil or the socket
    sock,       \* the OS socket behind udpConn: closed flag and remote address
    readBuffer, \* Conn.readBuffer
    kept,       \* the *Packet of an earlier Receive that the caller still holds (or Nil)
    cpc,        \* the closing goroutine's position in Conn.Close
    spc,        \* the sending goroutine's position in Conn.Send
    rpc,        \* the receiving goroutine's position in Conn.Receive
    cret,       \* what the last Close returned
    sret,       \* what the last Send returned
    rret,       \* what the last Receive returned
    localAddr,  \* the caller's *net.UDPAddr: the address object it points to (or nil)
    lret        \* what the last Listen returned

hvars == <<h, hret>>
pvars == <<heap, pk, wire, qk, pret, nwrites>>
cvars == <<udpConn, sock, readBuffer, kept, cpc, spc, rpc, cret, sret, rret>>
vars == <<h, hret, heap, pk, wire, qk, pret, nwrites, udpConn, sock, readBuffer, kept, cpc, spc, rpc, cret, sret, rret,
          localAddr, lret>>
lvars == <<localAddr, lret>>

Nil == "nil"
NoErr == "nil"

\* a nil *Packet, and the absence of a Header
NilPacket == [nil |-> TRUE]
NoHeader == [nil |-> TRUE]

-----------------------------------------------------------------------------
(* Program constants (src/vban/constants.go).                              *)

HeaderMagic == 1312899670          \* 0x4E414256
MaxStreamNameLen == 16
HeaderSize == 28
MaxPacketDataSize == 1436
MaxVBANPacketSize == HeaderSize + MaxPacketDataSize
DefaultPort == 6980
ProtocolAudio == 0
ProtocolMask == 224                \* 0xE0
SRMask == 31                       \* 0x1F
DataTypeMask == 7                  \* 0x07
CodecMask == 240                   \* 0xF0
ReservedBit == 8                   \* 0x08

-----------------------------------------------------------------------------
(* Bounds of the model.                                                    *)

MaxNameLen == 17        \* longest stream name a caller passes
MaxExtra == 2           \* how far sizes go past a limit (1436 + 1 .. 1436 + MaxExtra)
MaxWrites == 1          \* how many bytes a caller overwrites in its buffers

-----------------------------------------------------------------------------
(* Machine arithmetic and byte order.                                      *)

Byte == 0..255

ToUint8(n) == n % 256

RECURSIVE BitAnd(_, _)
BitAnd(a, b) ==
    IF a = 0 \/ b = 0 THEN 0
    ELSE (a % 2) * (b % 2) + 2 * BitAnd(a \div 2, b \div 2)

RECURSIVE BitOr(_, _)
BitOr(a, b) ==
    IF a = 0 THEN b
    ELSE IF b = 0 THEN a
    ELSE (IF a % 2 = 1 \/ b % 2 = 1 THEN 1 ELSE 0) + 2 * BitOr(a \div 2, b \div 2)

\* x &^ m on a uint8
BitAndNot(x, m) == BitAnd(x, 255 - m)

\* binary.LittleEndian, 4 bytes: least significant byte first
PutUint32(v) ==
    << v % 256, (v \div 256) % 256, (v \div 65536) % 256, (v \div 16777216) % 256 >>

Uint32(b) == b[1] + 256 * b[2] + 65536 * b[3] + 16777216 * b[4]

\* Go's s[lo:hi] on a 0-based slice, as a 1-based sequence
Slice(s, lo, hi) == SubSeq(s, lo + 1, hi)

Zeros(n) == [i \in 1..n |-> 0]

-----------------------------------------------------------------------------
(* The Header codec (src/vban/vban.go, lines 263-463).                     *)

\* the zero value of the Header struct
Header0 ==
    [VBAN |-> 0, FormatSR |-> 0, FormatNbs |-> 0, FormatNbc |-> 0, FormatBit |-> 0,
     StreamName |-> Zeros(MaxStreamNameLen), NuFrame |-> 0]

Min(a, b) == IF a < b THEN a ELSE b

\* bytes.IndexByte: 0-based index of the first c in s, or -1
IndexByte(s, c) ==
    IF \E i \in 1..Len(s) : s[i] = c
    THEN (CHOOSE i \in 1..Len(s) : s[i] = c /\ \A j \in 1..(i - 1) : s[j] # c) - 1
    ELSE -1

GetStreamName(hd) ==
    LET n0 == IndexByte(hd.StreamName, 0)
        n == IF n0 = -1 THEN MaxStreamNameLen ELSE n0
    IN  Slice(hd.StreamName, 0, n)

\* SetStreamName with the zeroing loop left out
SetStreamNameNoZeroFill(hd, name) ==
    LET l == Min(MaxStreamNameLen, Len(name))
    IN  [hd EXCEPT !.StreamName =
            [i \in 1..MaxStreamNameLen |-> IF i <= l THEN name[i] ELSE hd.StreamName[i]]]

\* SetStreamName with a C-style terminator forced into the last byte
SetStreamNameTerminated(hd, name) ==
    LET l == Min(MaxStreamNameLen - 1, Len(name))
    IN  [hd EXCEPT !.StreamName =
            [i \in 1..MaxStreamNameLen |-> IF i <= l THEN name[i] ELSE 0]]

SetStreamName(hd, name) ==
    LET l == Min(MaxStreamNameLen, Len(name))     \* l := copy(h.StreamName[:], name)
    IN  [hd EXCEPT !.StreamName =
            [i \in 1..MaxStreamNameLen |-> IF i <= l THEN name[i] ELSE 0]]

NewHeader(subProto, streamName) ==
    SetStreamName([Header0 EXCEPT !.VBAN = HeaderMagic, !.FormatSR = subProto],
                  streamName)

SubProtocol(hd) == BitAnd(hd.FormatSR, ProtocolMask)

SRIndex(hd) == BitAnd(hd.FormatSR, SRMask)

DataType(hd) == BitAnd(hd.FormatBit, DataTypeMask)

CodecType(hd) == BitAnd(hd.FormatBit, CodecMask)

\* uint8 result: h.FormatNbs + 1
SamplesPerFrame(hd) == ToUint8(hd.FormatNbs + 1)

SetSamplesPerFrame(hd, nbSamples) ==
    IF nbSamples = 0
    THEN [h |-> hd, err |-> "number of samples must be between 1 and 256"]
    ELSE [h |-> [hd EXCEPT !.FormatNbs = ToUint8(nbSamples - 1)], err |-> NoErr]

Channels(hd) == ToUint8(hd.FormatNbc + 1)

SetChannels(hd, nbChannels) ==
    IF nbChannels = 0
    THEN [h |-> hd, err |-> "number of channels must be between 1 and 256"]
    ELSE [h |-> [hd EXCEPT !.FormatNbc = ToUint8(nbChannels - 1)], err |-> NoErr]

SetAudioFormat(hd, srIndex, dataType, codec) ==
    [hd EXCEPT
        !.FormatSR = BitOr(BitAnd(ProtocolAudio, ProtocolMask), BitAnd(srIndex, SRMask)),
        !.FormatBit = BitAndNot(BitOr(BitAnd(codec, CodecMask), BitAnd(dataType, DataTypeMask)),
                                ReservedBit)]

\* big-endian: most significant byte first
PutUint32BE(v) ==
    << (v \div 16777216) % 256, (v \div 65536) % 256, (v \div 256) % 256, v % 256 >>

\* binary.Write(buf, byteOrder, v) for a uint32
byteOrderPutUint32(v) == PutUint32(v)

\* binary.Read(buf, byteOrder, &v) for a uint32
byteOrderUint32(b) == Uint32(b)

\* Header.MarshalBinary with FormatNbs and FormatNbc written in the wrong order
HeaderMarshalBinarySwapped(hd) ==
    [bytes |-> byteOrderPutUint32(hd.VBAN)
                \o << hd.FormatSR, hd.FormatNbc, hd.FormatNbs, hd.FormatBit >>
                \o hd.StreamName
                \o byteOrderPutUint32(hd.NuFrame),
     err |-> NoErr]

\* Header.MarshalBinary: (bytes, err)
HeaderMarshalBinary(hd) ==
    LET buf == byteOrderPutUint32(hd.VBAN)
                \o << hd.FormatSR, hd.FormatNbs, hd.FormatNbc, hd.FormatBit >>
                \o hd.StreamName
                \o byteOrderPutUint32(hd.NuFrame)
    IN  IF Len(buf) # HeaderSize
        THEN [bytes |-> << >>, err |-> "internal error: marshaled header size"]
        ELSE [bytes |-> buf, err |-> NoErr]

\* the field reads of Header.UnmarshalBinary that follow the magic check
ReadFields(h1, buf) ==
    [h1 EXCEPT !.FormatSR = buf[5], !.FormatNbs = buf[6], !.FormatNbc = buf[7],
               !.FormatBit = buf[8],
               !.StreamName = Slice(buf, 8, 8 + MaxStreamNameLen),
               !.NuFrame = byteOrderUint32(Slice(buf, 24, 28))]

\* Header.UnmarshalBinary with the magic validation left out
HeaderUnmarshalBinaryNoMagic(hd, data) ==
    IF Len(data) < HeaderSize
    THEN [h |-> hd, err |-> "insufficient data for header"]
    ELSE LET buf == Slice(data, 0, HeaderSize)
             h1 == [hd EXCEPT !.VBAN = byteOrderUint32(Slice(buf, 0, 4))]
         IN  [h |-> ReadFields(h1, buf), err |-> NoErr]

\* Header.UnmarshalBinary on receiver hd: (receiver afterwards, err)
HeaderUnmarshalBinary(hd, data) ==
    IF Len(data) < HeaderSize
    THEN [h |-> hd, err |-> "insufficient data for header"]
    ELSE LET buf == Slice(data, 0, HeaderSize)
             h1 == [hd EXCEPT !.VBAN = byteOrderUint32(Slice(buf, 0, 4))]
         IN  IF h1.VBAN # HeaderMagic
             THEN [h |-> h1, err |-> "invalid VBAN magic number"]
             ELSE [h |-> ReadFields(h1, buf), err |-> NoErr]

-----------------------------------------------------------------------------
(* Inputs of the header operations.                                        *)

\* 0x5642414E, the magic's bytes in reverse order: 'N', 'A', 'B', 'V' on the wire
BadMagic == Uint32(<< 78, 65, 66, 86 >>)

\* 'A', 'B', 'C', ... : a name of L non-zero bytes
NamePat(L) == [i \in 1..L |-> 65 + ((i - 1) % 26)]

NameLens == {0, 1, MaxStreamNameLen - 1} \cup (MaxStreamNameLen..MaxNameLen)

\* Go strings may hold zero bytes: the same names with one byte replaced by 0
NameInputs ==
    {NamePat(L) : L \in NameLens}
    \cup UNION {{[NamePat(L) EXCEPT ![k] = 0] : k \in {(L + 1) \div 2, L}} :
                L \in NameLens \ {0}}

SubProtoInputs == {0, 96, 35, 255}

\* what a caller asks for as a sample or channel count; the call converts it
\* with uint8(n), as the repository's example sender does (src/README.md 176, 229)
CountInputs == {0, 1, 255, 256}

\* <<srIndex, dataType, codec>>
AudioFormatInputs == {<<0, 0, 0>>, <<3, 1, 16>>, <<255, 15, 255>>}

\* direct assignments to the exported fields
FieldInputs ==
    {[VBAN |-> HeaderMagic, FormatSR |-> 255, FormatNbs |-> 255, FormatNbc |-> 255,
      FormatBit |-> 255, NuFrame |-> 2147483647],
     [VBAN |-> HeaderMagic, FormatSR |-> 35, FormatNbs |-> 63, FormatNbc |-> 1,
      FormatBit |-> 25, NuFrame |-> 16909060],
     [VBAN |-> BadMagic, FormatSR |-> 35, FormatNbs |-> 63, FormatNbc |-> 1,
      FormatBit |-> 25, NuFrame |-> 16909060],
     [VBAN |-> 0, FormatSR |-> 0, FormatNbs |-> 0, FormatNbc |-> 0,
      FormatBit |-> 0, NuFrame |-> 0]}

\* a receiver whose every field differs from the inputs above
JunkHeader ==
    [VBAN |-> HeaderMagic, FormatSR |-> 90, FormatNbs |-> 91, FormatNbc |-> 92,
     FormatBit |-> 93, StreamName |-> [i \in 1..MaxStreamNameLen |-> 97 + i],
     NuFrame |-> 1515870810]

\* byte k (1-based) of b changed to another value below 128
Corrupt(b, k) == [b EXCEPT ![k] = (b[k] + 1) % 128]

\* what a caller hands to the decoder: the encoding of hd, whole, cut short,
\* followed by more bytes, or with one byte of the magic changed
DecodeInputs(hd) ==
    LET b == HeaderMarshalBinary(hd).bytes
    IN  {b, Slice(b, 0, HeaderSize - 1), << >>, b \o << 1, 2, 3 >>}
        \cup {Corrupt(b, k) : k \in 1..4}

\* what an operation returned: recv is the receiver before the call, hdr the
\* Header a decode filled in, pkt the *Packet a decode returned, bytes its output
HRet(op, arg, err) ==
    [op |-> op, arg |-> arg, err |-> err, bytes |-> << >>, data |-> << >>,
     recv |-> NoHeader, hdr |-> NoHeader, pkt |-> NilPacket]

-----------------------------------------------------------------------------
(* The header operations as actions on the caller's Header h.              *)

HInit ==
    /\ h = Header0
    /\ hret = HRet("init", Nil, NoErr)

DoNewHeader ==
    \E sp \in SubProtoInputs, name \in NameInputs :
        /\ h' = NewHeader(sp, name)
        /\ hret' = HRet("NewHeader", << sp, name >>, NoErr)

DoSetStreamName ==
    \E name \in NameInputs :
        /\ h' = SetStreamName(h, name)
        /\ hret' = [HRet("SetStreamName", name, NoErr) EXCEPT !.recv = h]

DoSetSamplesPerFrame ==
    \E n \in CountInputs :
        LET r == SetSamplesPerFrame(h, ToUint8(n))
        IN  /\ h' = r.h
            /\ hret' = [HRet("SetSamplesPerFrame", n, r.err) EXCEPT !.recv = h]

DoSetChannels ==
    \E n \in CountInputs :
        LET r == SetChannels(h, ToUint8(n))
        IN  /\ h' = r.h
            /\ hret' = [HRet("SetChannels", n, r.err) EXCEPT !.recv = h]

DoSetAudioFormat ==
    \E a \in AudioFormatInputs :
        /\ h' = SetAudioFormat(h, a[1], a[2], a[3])
        /\ hret' = HRet("SetAudioFormat", a, NoErr)

\* h.VBAN = ..., h.FormatSR = ..., h.NuFrame = ...: the fields are exported
DoAssignFields ==
    \E f \in FieldInputs :
        /\ h' = [h EXCEPT !.VBAN = f.VBAN, !.FormatSR = f.FormatSR,
                          !.FormatNbs = f.FormatNbs, !.FormatNbc = f.FormatNbc,
                          !.FormatBit = f.FormatBit, !.NuFrame = f.NuFrame]
        /\ hret' = HRet("assign", f, NoErr)

DoHeaderMarshalBinary ==
    LET r == HeaderMarshalBinary(h)
    IN  /\ hret' = [HRet("Header.MarshalBinary", Nil, r.err) EXCEPT !.bytes = r.bytes]
        /\ UNCHANGED h

\* g.UnmarshalBinary(data) on a receiver g other than h; hret.hdr is g afterwards
DoHeaderUnmarshalBinary ==
    \E data \in DecodeInputs(h), recv \in {Header0, JunkHeader} :
        LET r == HeaderUnmarshalBinary(recv, data)
        IN  /\ hret' = [HRet("Header.UnmarshalBinary", Nil, r.err) EXCEPT
                            !.data = data, !.recv = recv, !.hdr = r.h]
            /\ UNCHANGED h

-----------------------------------------------------------------------------
(* Packet framing (src/vban/vban.go, lines 9-84).  A []byte is a slice     *)
(* [arr, off, len] into a backing array of the heap; two slices share      *)
(* storage when they name the same array.  The heap keeps a backing array  *)
(* as its length and its bytes up to the last one that is not zero.        *)

NilSlice == [arr |-> "none", off |-> 0, len |-> 0]

MkSlice(a, off, n) == [arr |-> a, off |-> off, len |-> n]

\* the index of the last byte of b that is not zero, 0 if there is none
LastNonZero(b) ==
    IF \A i \in 1..Len(b) : b[i] = 0 THEN 0
    ELSE CHOOSE i \in 1..Len(b) : b[i] # 0 /\ \A j \in (i + 1)..Len(b) : b[j] = 0

\* a backing array holding the bytes b, and the bytes a backing array holds
Pack(b) ==
    CHOOSE a \in {[len |-> Len(v), head |-> SubSeq(v, 1, LastNonZero(v))] : v \in {b}} : TRUE

Unpack(a) == a.head \o Zeros(a.len - Len(a.head))

ByteAt(a, i) == IF i <= Len(a.head) THEN a.head[i] ELSE 0

\* the bytes a slice shows
View(hp, s) ==
    IF s.len = 0 THEN << >> ELSE SubSeq(Unpack(hp[s.arr]), s.off + 1, s.off + s.len)

\* s[lo:hi]
Reslice(s, lo, hi) == MkSlice(s.arr, s.off + lo, hi - lo)

\* make([]byte, ...): the id of a fresh backing array
NewArr(hp) == CHOOSE a \in {"m1", "m2", "m3", "m4", "m5"} : a \notin DOMAIN hp

\* the heap with array a holding bytes
Store(hp, a, bytes) == [x \in DOMAIN hp \cup {a} |-> IF x = a THEN Pack(bytes) ELSE hp[x]]

\* the heap after a[at] = b (at is 1-based)
Poke(hp, a, at, b) == Store(hp, a, [Unpack(hp[a]) EXCEPT ![at] = b])

\* the garbage collector: only the arrays some variable still refers to are kept
Collect(hp, live) == [x \in DOMAIN hp \cap live |-> hp[x]]

NewPacket(header, data) ==
    IF data.len > MaxPacketDataSize
    THEN [p |-> NilPacket, err |-> "data size exceeds VBAN maximum"]
    ELSE [p |-> [Header |-> header, Data |-> data], err |-> NoErr]

\* Packet.MarshalBinary without the re-validation of len(p.Data)
PacketMarshalBinaryNoCheck(hp, p) ==
    LET hb == HeaderMarshalBinary(p.Header)
        a == NewArr(hp)
        full == hb.bytes \o View(hp, p.Data)
    IN  [heap |-> Store(hp, a, full), bytes |-> MkSlice(a, 0, Len(full)), err |-> NoErr]

\* Packet.MarshalBinary: (heap afterwards, bytes, err)
PacketMarshalBinary(hp, p) ==
    LET hb == HeaderMarshalBinary(p.Header)
    IN  IF hb.err # NoErr
        THEN [heap |-> hp, bytes |-> NilSlice, err |-> "failed to marshal packet header"]
        ELSE IF p.Data.len > MaxPacketDataSize
        THEN [heap |-> hp, bytes |-> NilSlice, err |-> "data size exceeds VBAN maximum"]
        ELSE LET a == NewArr(hp)                       \* make([]byte, 0, ...)
                 full == hb.bytes \o View(hp, p.Data)  \* the two appends
             IN  [heap |-> Store(hp, a, full), bytes |-> MkSlice(a, 0, Len(full)),
                  err |-> NoErr]

\* UnmarshalBinary that keeps the payload as a view of its input
UnmarshalBinaryNoCopy(hp, data) ==
    IF data.len < HeaderSize
    THEN [heap |-> hp, p |-> NilPacket, err |-> "insufficient data for VBAN packet"]
    ELSE IF data.len > MaxVBANPacketSize
    THEN [heap |-> hp, p |-> NilPacket, err |-> "packet size exceeds VBAN maximum"]
    ELSE LET r == HeaderUnmarshalBinary(Header0, View(hp, Reslice(data, 0, HeaderSize)))
         IN  IF r.err # NoErr
             THEN [heap |-> hp, p |-> NilPacket, err |-> "failed to unmarshal VBAN header"]
             ELSE [heap |-> hp,
                   p |-> [Header |-> r.h, Data |-> Reslice(data, HeaderSize, data.len)],
                   err |-> NoErr]

\* UnmarshalBinary with the upper limit taken from the size of the read buffer
UnmarshalBinaryLoose(hp, data) ==
    IF data.len < HeaderSize
    THEN [heap |-> hp, p |-> NilPacket, err |-> "insufficient data for VBAN packet"]
    ELSE IF data.len > MaxVBANPacketSize + 1
    THEN [heap |-> hp, p |-> NilPacket, err |-> "packet size exceeds VBAN maximum"]
    ELSE LET r == HeaderUnmarshalBinary(Header0, View(hp, Reslice(data, 0, HeaderSize)))
             dataPayload == Reslice(data, HeaderSize, data.len)
             a == NewArr(hp)
         IN  IF r.err # NoErr
             THEN [heap |-> hp, p |-> NilPacket, err |-> "failed to unmarshal VBAN header"]
             ELSE [heap |-> Store(hp, a, View(hp, dataPayload)),
                   p |-> [Header |-> r.h, Data |-> MkSlice(a, 0, dataPayload.len)],
                   err |-> NoErr]

\* UnmarshalBinary (the package function): (heap afterwards, *Packet, err)
UnmarshalBinary(hp, data) ==
    IF data.len < HeaderSize
    THEN [heap |-> hp, p |-> NilPacket, err |-> "insufficient data for VBAN packet"]
    ELSE IF data.len > MaxVBANPacketSize
    THEN [heap |-> hp, p |-> NilPacket, err |-> "packet size exceeds VBAN maximum"]
    ELSE LET r == HeaderUnmarshalBinary(Header0, View(hp, Reslice(data, 0, HeaderSize)))
             dataPayload == Reslice(data, HeaderSize, data.len)
             a == NewArr(hp)                           \* make([]byte, len(dataPayload))
         IN  IF r.err # NoErr
             THEN [heap |-> hp, p |-> NilPacket, err |-> "failed to unmarshal VBAN header"]
             ELSE [heap |-> Store(hp, a, View(hp, dataPayload)),     \* copy
                   p |-> [Header |-> r.h, Data |-> MkSlice(a, 0, dataPayload.len)],
                   err |-> NoErr]

-----------------------------------------------------------------------------
(* Inputs of the packet operations.  The caller owns two buffers: array 1, *)
(* the source of its payloads, and array 2, bytes that came from elsewhere *)
(* (a datagram), which start with a magic that is valid or not.            *)

PayloadArr == "payload"
RxArr == "rx"

PayloadLens ==
    {0, 1, 700} \cup ((MaxPacketDataSize - 1)..(MaxPacketDataSize + MaxExtra))

RxLens ==
    {0, HeaderSize - 1, HeaderSize, HeaderSize + 1}
    \cup ((MaxVBANPacketSize - 1)..(MaxVBANPacketSize + MaxExtra))

PayloadBytes == [i \in 1..(MaxPacketDataSize + MaxExtra) |-> 1 + ((7 * i) % 101)]

RxBytes(magic) ==
    byteOrderPutUint32(magic)
    \o [i \in 1..(MaxVBANPacketSize + MaxExtra - 4) |-> 1 + ((5 * i) % 103)]

PacketHeaders == {[JunkHeader EXCEPT !.StreamName = NamePat(MaxStreamNameLen)], Header0}

PRet(op, arg, err) == [op |-> op, arg |-> arg, err |-> err]

\* the arrays the caller's variables still refer to
Live(p, w, q) ==
    {PayloadArr, RxArr, w.arr}
    \cup (IF p = NilPacket THEN {} ELSE {p.Data.arr})
    \cup (IF q = NilPacket THEN {} ELSE {q.Data.arr})

\* the slices a caller has at hand to decode
DecodeSlices ==
    {MkSlice(RxArr, 0, n) : n \in RxLens}
    \cup (IF wire = NilSlice THEN {}
          ELSE {wire, Reslice(wire, 0, HeaderSize - 1), Reslice(wire, 0, HeaderSize)})

\* the caller's variables that hold a byte slice, and the slice each holds
SliceVars == {"data", "rx", "wire", "q.Data"}

SliceOf(v) ==
    CASE v = "data" -> IF pk = NilPacket THEN NilSlice ELSE pk.Data
      [] v = "rx" -> MkSlice(RxArr, 0, MaxVBANPacketSize + MaxExtra)
      [] v = "wire" -> wire
      [] v = "q.Data" -> IF qk = NilPacket THEN NilSlice ELSE qk.Data

-----------------------------------------------------------------------------
(* The packet operations as actions.                                       *)

PInit ==
    /\ \E magic \in {HeaderMagic, BadMagic} :
            heap = Store(Store(<< >>, PayloadArr, PayloadBytes), RxArr, RxBytes(magic))
    /\ pk = NilPacket
    /\ wire = NilSlice
    /\ qk = NilPacket
    /\ pret = PRet("init", Nil, NoErr)
    /\ nwrites = 0

DoNewPacket ==
    /\ pk = NilPacket
    /\ \E hd \in PacketHeaders, n \in PayloadLens :
        LET r == NewPacket(hd, MkSlice(PayloadArr, 0, n))
        IN  /\ pk' = r.p
            /\ pret' = PRet("NewPacket", n, r.err)
    /\ UNCHANGED <<heap, wire, qk, nwrites>>

\* p.Data = data[:n]: the field is exported
DoReplaceData ==
    /\ pk # NilPacket
    /\ wire = NilSlice
    /\ qk = NilPacket
    /\ \E n \in PayloadLens :
        /\ pk' = [pk EXCEPT !.Data = MkSlice(PayloadArr, 0, n)]
        /\ pret' = PRet("assign", n, NoErr)
    /\ UNCHANGED <<heap, wire, qk, nwrites>>

DoPacketMarshalBinary ==
    /\ pk # NilPacket
    /\ wire = NilSlice
    /\ qk = NilPacket
    /\ LET r == PacketMarshalBinary(heap, pk)
       IN  /\ wire' = r.bytes
           /\ pret' = PRet("MarshalBinary", Nil, r.err)
           /\ heap' = Collect(r.heap, Live(pk, r.bytes, qk))
    /\ UNCHANGED <<pk, qk, nwrites>>

DoUnmarshalBinary ==
    /\ qk = NilPacket
    /\ \E data \in DecodeSlices :
        LET r == UnmarshalBinary(heap, data)
        IN  /\ qk' = r.p
            /\ pret' = PRet("UnmarshalBinary", data, r.err)
            /\ heap' = Collect(r.heap, Live(pk, wire, r.p))
    /\ UNCHANGED <<pk, wire, nwrites>>

\* UnmarshalBinary(data) on the encodings of the caller's Header h
DoUnmarshalHeaderBytes ==
    \E data \in DecodeInputs(h) :
        LET r == UnmarshalBinary(Store(<< >>, "in", data), MkSlice("in", 0, Len(data)))
        IN  /\ hret' = [HRet("UnmarshalBinary", Nil, r.err) EXCEPT
                            !.data = data, !.pkt = r.p,
                            !.bytes = IF r.p = NilPacket THEN << >>
                                      ELSE View(r.heap, r.p.Data)]
            /\ UNCHANGED h

\* v[i] = b through one of the caller's slice variables
DoWrite ==
    /\ qk # NilPacket
    /\ nwrites < MaxWrites
    /\ \E v \in SliceVars, i \in {0, HeaderSize} :
        LET sl == SliceOf(v)
            at == sl.off + i + 1
        IN  /\ i < sl.len
            /\ heap' = Poke(heap, sl.arr, at, (ByteAt(heap[sl.arr], at) + 1) % 128)
            /\ pret' = PRet("write", << v, i >>, NoErr)
    /\ nwrites' = nwrites + 1
    /\ UNCHANGED <<pk, wire, qk>>

-----------------------------------------------------------------------------
(* The transport endpoint (src/vban/vban.go, lines 86-260).  One Conn is   *)
(* shared by three goroutines: one calls Close, one Send, one Receive.     *)
(* Each goroutine advances one statement that touches shared state at a    *)
(* time; the Conn has no lock.  The socket is the net package's UDPConn:   *)
(* a read blocks until the network hands it a datagram or a pending socket *)
(* error, or the socket is closed; Close makes blocked and later reads and *)
(* writes fail with net.ErrClosed.  A read takes its datagram at the step  *)
(* at which it returns: what the kernel queued before that step is the     *)
(* network's choice at that step.                                          *)

ErrClosed == "use of closed network connection"                    \* net.ErrClosed
ErrWriteToConnected == "use of WriteTo with pre-connected connection"
ErrRefused == "connection refused"
ErrUnreachable == "network is unreachable"

TheSocket == "sock"          \* the *net.UDPConn the Conn was built around
ReadArr == "readBuffer"      \* the backing array of Conn.readBuffer
NoWrite == [to |-> Nil, n |-> 0]
NoCall == "none"             \* the result of a call that has not returned

\* the socket as bound (remote = Nil) or connected (remote = the dialed peer)
NewSocket(remote) == [closed |-> FALSE, remote |-> remote]

\* a Conn whose read buffer has exactly the size of the largest VBAN packet
NewConnExact(udp) ==
    [udpConn |-> udp, readBuffer |-> MkSlice(ReadArr, 0, MaxVBANPacketSize)]

\* the Conn value the three constructors build around a socket
NewConn(udp) ==
    [udpConn |-> udp, readBuffer |-> MkSlice(ReadArr, 0, MaxVBANPacketSize + 1)]

\* a read of the field c.udpConn after the method's own nil check, without
\* synchronisation: the field as it is now, or the socket the check saw
LoadUdpConn == {udpConn, TheSocket}

\* a Close that leaves the socket open
UDPConnCloseSkipped(s) == [sock |-> s, err |-> NoErr]

\* net.UDPConn.Close: (the socket afterwards, err)
UDPConnClose(s) ==
    [sock |-> [s EXCEPT !.closed = TRUE], err |-> IF s.closed THEN ErrClosed ELSE NoErr]

\* a Close that leaves the field as it is
CloseMarkKept(udp) == udp

\* line 156: the value Close stores in c.udpConn
CloseMark(udp) == Nil

\* net.UDPConn.WriteToUDP(b, addr) with len(b) = n: the outcomes (the
\* datagram that left the socket, n, err)
WriteToUDP(s, n, addr) ==
    IF s.remote # Nil THEN {[wrote |-> NoWrite, n |-> 0, err |-> ErrWriteToConnected]}
    ELSE IF s.closed THEN {[wrote |-> NoWrite, n |-> 0, err |-> ErrClosed]}
    ELSE {[wrote |-> [to |-> addr, n |-> n], n |-> n, err |-> NoErr],
          [wrote |-> NoWrite, n |-> 0, err |-> ErrUnreachable]}

\* net.UDPConn.RemoteAddr
UDPRemoteAddr(s) == s.remote

\* net.UDPConn.Write(b) with len(b) = n: the outcomes
UDPWrite(s, n) ==
    IF s.closed THEN {[wrote |-> NoWrite, n |-> 0, err |-> ErrClosed]}
    ELSE {[wrote |-> [to |-> s.remote, n |-> n], n |-> n, err |-> NoErr],
          [wrote |-> NoWrite, n |-> 0, err |-> ErrRefused]}

\* what a Send returned: the error and the error it wraps, the methods of
\* the socket it called, and the datagram it put on the network
SRet(err, cause, calls, wrote) ==
    [err |-> err, cause |-> cause, calls |-> calls, wrote |-> wrote]

\* Send, lines 191-200: the result after the write returned (n, err)
SendResult(w, len, calls) ==
    IF w.err # NoErr
    THEN SRet("UDP write error", w.err, calls, w.wrote)
    ELSE IF w.n # len
    THEN SRet("incomplete UDP write", NoErr, calls, w.wrote)
    ELSE SRet(NoErr, NoErr, calls, w.wrote)

\* the bytes of a queued datagram: a header with the datagram's magic, then
\* (as far as its length goes) one payload byte that is not zero and zeros
DatagramBytes(d) ==
    Slice(HeaderMarshalBinary([JunkHeader EXCEPT !.VBAN = d.magic]).bytes
          \o << 1 + (d.len % 251) >> \o Zeros(MaxPacketDataSize + MaxExtra),
          0, d.len)

\* net.UDPConn.ReadFromUDP(buf) once it returns, d being what the network
\* has for it: (heap afterwards, n, remoteAddr, err).  A datagram longer
\* than buf is cut to len(buf).
ReadFromUDP(s, hp, buf, d) ==
    IF s.closed
    THEN [heap |-> hp, n |-> 0, addr |-> Nil, err |-> ErrClosed]
    ELSE IF d.kind = "error"
    THEN [heap |-> hp, n |-> 0, addr |-> Nil, err |-> ErrRefused]
    ELSE LET n == Min(d.len, buf.len)
             b == DatagramBytes(d)
         IN  [heap |-> Store(hp, buf.arr,
                             SubSeq(Unpack(hp[buf.arr]), 1, buf.off)
                             \o SubSeq(b, 1, n)
                             \o SubSeq(Unpack(hp[buf.arr]), buf.off + n + 1,
                                        hp[buf.arr].len)),
              n |-> n, addr |-> d.from, err |-> NoErr]

\* Receive that drops the sender's address whenever it returns no packet
ReceiveResultNoAddr(hp, buf, n, remoteAddr, err) ==
    IF err # NoErr \/ n = 0 \/ n > MaxVBANPacketSize
    THEN [heap |-> hp, pkt |-> NilPacket, addr |-> Nil,
          err |-> "receive failed", cause |-> err]
    ELSE LET r == UnmarshalBinary(hp, Reslice(buf, 0, n))
         IN  IF r.err # NoErr
             THEN [heap |-> hp, pkt |-> NilPacket, addr |-> Nil,
                   err |-> "failed to unmarshal received data as VBAN packet",
                   cause |-> r.err]
             ELSE [heap |-> r.heap, pkt |-> r.p, addr |-> remoteAddr,
                   err |-> NoErr, cause |-> NoErr]

\* Receive, lines 214-244: the result after the read returned (n, remoteAddr, err)
ReceiveResult(hp, buf, n, remoteAddr, err) ==
    IF err # NoErr
    THEN IF err = ErrClosed
         THEN [heap |-> hp, pkt |-> NilPacket, addr |-> Nil,
               err |-> "connection closed", cause |-> err]
         ELSE [heap |-> hp, pkt |-> NilPacket, addr |-> Nil,
               err |-> "UDP read error", cause |-> err]
    ELSE IF n = 0
    THEN [heap |-> hp, pkt |-> NilPacket, addr |-> remoteAddr,
          err |-> "received empty UDP packet", cause |-> NoErr]
    ELSE IF n > MaxVBANPacketSize
    THEN [heap |-> hp, pkt |-> NilPacket, addr |-> remoteAddr,
          err |-> "received oversized packet", cause |-> NoErr]
    ELSE LET r == UnmarshalBinary(hp, Reslice(buf, 0, n))
         IN  IF r.err # NoErr
             THEN [heap |-> hp, pkt |-> NilPacket, addr |-> remoteAddr,
                   err |-> "failed to unmarshal received data as VBAN packet",
                   cause |-> r.err]
             ELSE [heap |-> r.heap, pkt |-> r.p, addr |-> remoteAddr,
                   err |-> NoErr, cause |-> NoErr]

-----------------------------------------------------------------------------
(* Inputs of the endpoint: what callers pass to Send and what arrives.     *)

\* the sending goroutine's payloads are views of its own array
TxArr == "tx"
TxBytes == [i \in 1..(MaxPacketDataSize + 1) |-> IF i = 1 THEN 7 ELSE 0]

SendPackets ==
    {NilPacket}
    \cup {[Header |-> JunkHeader, Data |-> MkSlice(TxArr, 0, n)] :
            n \in {1, MaxPacketDataSize + 1}}

SendAddrs == {Nil, "peer"}

\* what the network can hand to a read: datagrams of the lengths around the
\* limits, one with a bad magic, and (on a connected socket) an ICMP error
InboxInputs(s) ==
    LET from == IF s.remote = Nil THEN "peer" ELSE s.remote
    IN  {[kind |-> "dgram", from |-> from, magic |-> HeaderMagic, len |-> n] :
            n \in {0, HeaderSize - 1, HeaderSize}
                   \cup (MaxVBANPacketSize..(MaxVBANPacketSize + MaxExtra))}
        \cup {[kind |-> "dgram", from |-> from, magic |-> BadMagic, len |-> HeaderSize]}
        \cup (IF s.remote = Nil THEN {}
              ELSE {[kind |-> "error", from |-> Nil, magic |-> HeaderMagic, len |-> 0]})

CRet(err, cause, calls) == [err |-> err, cause |-> cause, calls |-> calls]

\* the read of a Receive took nothing from the network
NoDatagram == [kind |-> "none", from |-> Nil, magic |-> 0, len |-> 0]

\* what a Receive returned: the packet, the address, the error and the error
\* it wraps; the methods of the socket it called, whether its read began on
\* the open socket, and what the read took from the network
RRet(r, calls, waited, got) ==
    [pkt |-> r.pkt, addr |-> r.addr, err |-> r.err, cause |-> r.cause,
     calls |-> calls, waited |-> waited, got |-> got]

NoReceive ==
    RRet([pkt |-> NilPacket, addr |-> Nil, err |-> NoCall, cause |-> NoErr], << >>, FALSE,
         NoDatagram)

Idle == [at |-> "idle"]

\* a goroutine called a method through a nil *net.UDPConn: the process is gone
Crashed == spc.at = "nilcall" \/ rpc.at = "nilcall"

\* the arrays the endpoint and its callers still refer to
ConnLive(ret, kp) ==
    {TxArr, ReadArr}
    \cup (IF ret.pkt = NilPacket THEN {} ELSE {ret.pkt.Data.arr})
    \cup (IF kp = NilPacket THEN {} ELSE {kp.Data.arr})

-----------------------------------------------------------------------------
(* The endpoint's operations as actions.                                   *)

\* a Conn from Listen or NewConn (bound) or from Dial or NewConn (connected)
CInit ==
    /\ \E remote \in {Nil, "remote"} : sock = NewSocket(remote)
    /\ udpConn = NewConn(TheSocket).udpConn
    /\ readBuffer = NewConn(TheSocket).readBuffer
    /\ kept = NilPacket
    /\ heap = Store(Store(<< >>, TxArr, TxBytes), ReadArr, Zeros(MaxVBANPacketSize + 1))
    /\ cpc = Idle
    /\ spc = Idle
    /\ rpc = Idle
    /\ cret = CRet(NoCall, NoErr, << >>)
    /\ sret = SRet(NoCall, NoErr, << >>, NoWrite)
    /\ rret = NoReceive

\* Close, lines 151-154: the call and the nil check
DoClose ==
    /\ ~Crashed
    /\ cpc.at = "idle"
    /\ IF udpConn = Nil
       THEN /\ cret' = CRet(NoErr, NoErr, << >>)
            /\ cpc' = cpc
       ELSE /\ cpc' = [at |-> "c155"]
            /\ cret' = cret
    /\ UNCHANGED <<heap, udpConn, sock, readBuffer, kept, spc, rpc, sret, rret>>

\* Close, line 155: c.udpConn.Close()
DoCloseSock ==
    /\ ~Crashed
    /\ cpc.at = "c155"
    /\ sock' = UDPConnClose(sock).sock
    /\ cpc' = [at |-> "c156", err |-> UDPConnClose(sock).err]
    /\ UNCHANGED <<heap, udpConn, readBuffer, kept, spc, rpc, cret, sret, rret>>

\* Close, lines 156-157: c.udpConn = nil; return err
DoCloseMark ==
    /\ ~Crashed
    /\ cpc.at = "c156"
    /\ udpConn' = CloseMark(udpConn)
    /\ cret' = CRet(cpc.err, NoErr, << "Close" >>)
    /\ cpc' = Idle
    /\ UNCHANGED <<heap, sock, readBuffer, kept, spc, rpc, sret, rret>>

\* Send, lines 163-178: the call, the checks and the marshalling
DoSend ==
    /\ ~Crashed
    /\ spc.at = "idle"
    /\ \E packet \in SendPackets, addr \in SendAddrs :
        IF udpConn = Nil
        THEN /\ sret' = SRet("connection is closed", NoErr, << >>, NoWrite)
             /\ spc' = spc
        ELSE IF packet = NilPacket
        THEN /\ sret' = SRet("cannot send a nil packet", NoErr, << >>, NoWrite)
             /\ spc' = spc
        ELSE LET r == PacketMarshalBinary(heap, packet)
             IN  IF r.err # NoErr
                 THEN /\ sret' = SRet("failed to marshal packet for sending", r.err,
                                      << >>, NoWrite)
                      /\ spc' = spc
                 ELSE /\ spc' = [at |-> IF addr # Nil THEN "s180" ELSE "s183",
                                 addr |-> addr, n |-> r.bytes.len]
                      /\ sret' = SRet(NoCall, NoErr, << >>, NoWrite)
    /\ UNCHANGED <<heap, udpConn, sock, readBuffer, kept, cpc, rpc, cret, rret>>

\* Send, line 180 and 191-200: c.udpConn.WriteToUDP(packetBytes, addr)
DoSendWriteToUDP ==
    /\ ~Crashed
    /\ spc.at = "s180"
    /\ \E c \in LoadUdpConn :
        IF c = Nil
        THEN /\ spc' = [at |-> "nilcall", call |-> "WriteToUDP"]
             /\ sret' = sret
        ELSE \E w \in WriteToUDP(sock, spc.n, spc.addr) :
                /\ sret' = SendResult(w, spc.n, << "WriteToUDP" >>)
                /\ spc' = Idle
    /\ UNCHANGED <<heap, udpConn, sock, readBuffer, kept, cpc, rpc, cret, rret>>

\* Send, lines 183-186: c.udpConn.RemoteAddr() == nil
DoSendRemoteAddr ==
    /\ ~Crashed
    /\ spc.at = "s183"
    /\ \E c \in LoadUdpConn :
        IF c = Nil
        THEN /\ spc' = [at |-> "nilcall", call |-> "RemoteAddr"]
             /\ sret' = sret
        ELSE IF UDPRemoteAddr(sock) = Nil
        THEN /\ sret' = SRet("destination address (addr) must be provided for non-dialed connections",
                             NoErr, << "RemoteAddr" >>, NoWrite)
             /\ spc' = Idle
        ELSE /\ spc' = [spc EXCEPT !.at = "s188"]
             /\ sret' = sret
    /\ UNCHANGED <<heap, udpConn, sock, readBuffer, kept, cpc, rpc, cret, rret>>

\* Send, line 188 and 191-200: c.udpConn.Write(packetBytes)
DoSendWrite ==
    /\ ~Crashed
    /\ spc.at = "s188"
    /\ \E c \in LoadUdpConn :
        IF c = Nil
        THEN /\ spc' = [at |-> "nilcall", call |-> "Write"]
             /\ sret' = sret
        ELSE \E w \in UDPWrite(sock, spc.n) :
                /\ sret' = SendResult(w, spc.n, << "RemoteAddr", "Write" >>)
                /\ spc' = Idle
    /\ UNCHANGED <<heap, udpConn, sock, readBuffer, kept, cpc, rpc, cret, rret>>

\* Receive, lines 205-208: the call and the nil check.  The caller lets go
\* of the packet the previous call returned, or holds on to it.
DoReceive ==
    /\ ~Crashed
    /\ rpc.at = "idle"
    /\ IF udpConn = Nil
       THEN /\ rret' = RRet([pkt |-> NilPacket, addr |-> Nil,
                             err |-> "connection is closed", cause |-> NoErr],
                            << >>, FALSE, NoDatagram)
            /\ rpc' = rpc
       ELSE /\ rpc' = [at |-> "r212"]
            /\ rret' = NoReceive
    /\ kept' \in {kept} \cup ({rret.pkt} \ {NilPacket})
    /\ heap' = Collect(heap, ConnLive(NoReceive, kept'))
    /\ UNCHANGED <<udpConn, sock, readBuffer, cpc, spc, cret, sret>>

\* Receive, line 212: c.udpConn.ReadFromUDP(c.readBuffer) is entered
DoReadFromUDP ==
    /\ ~Crashed
    /\ rpc.at = "r212"
    /\ \E c \in LoadUdpConn :
        IF c = Nil
        THEN rpc' = [at |-> "nilcall", call |-> "ReadFromUDP"]
        ELSE rpc' = [at |-> "reading", open |-> ~sock.closed]
    /\ UNCHANGED <<heap, udpConn, sock, readBuffer, kept, cpc, spc, cret, sret, rret>>

\* Receive, lines 212-244: the network has something for the read, the read
\* returns it and Receive returns its result
DoReadDatagram ==
    /\ ~Crashed
    /\ rpc.at = "reading"
    /\ ~sock.closed
    /\ \E d \in InboxInputs(sock) :
       \E rd \in {ReadFromUDP(sock, heap, readBuffer, d)} :
       \E r \in {ReceiveResult(rd.heap, readBuffer, rd.n, rd.addr, rd.err)} :
           /\ rret' = RRet(r, << "ReadFromUDP" >>, rpc.open, d)
           /\ heap' = Collect(r.heap, ConnLive(r, kept))
    /\ rpc' = Idle
    /\ UNCHANGED <<udpConn, sock, readBuffer, kept, cpc, spc, cret, sret>>

\* Receive, lines 212-219: the socket is closed, the read fails and Receive
\* returns its result
DoReadClosed ==
    /\ ~Crashed
    /\ rpc.at = "reading"
    /\ sock.closed
    /\ \E rd \in {ReadFromUDP(sock, heap, readBuffer, NoDatagram)} :
       \E r \in {ReceiveResult(rd.heap, readBuffer, rd.n, rd.addr, rd.err)} :
           /\ rret' = RRet(r, << "ReadFromUDP" >>, rpc.open, NoDatagram)
           /\ heap' = Collect(r.heap, ConnLive(r, kept))
    /\ rpc' = Idle
    /\ UNCHANGED <<udpConn, sock, readBuffer, kept, cpc, spc, cret, sret>>

-----------------------------------------------------------------------------
(* Listen (src/vban/vban.go, lines 98-118).  A *net.UDPAddr is a pointer:  *)
(* localAddr is the object the caller's pointer refers to, NilAddr for a   *)
(* nil pointer.  Listen's local variable addr is a copy of the pointer,    *)
(* not of the object.                                                      *)

NilAddr == [nil |-> TRUE]

IPv4zero == "0.0.0.0"

\* &net.UDPAddr{IP: ip, Port: port}
UDPAddr(ip, port) == [IP |-> ip, Port |-> port]

ErrAddrInUse == "bind: address already in use"

\* net.ListenUDP("udp", addr): the outcomes
ListenUDP(addr) == {[conn |-> TheSocket, err |-> NoErr], [conn |-> Nil, err |-> ErrAddrInUse]}

\* Listen(localAddr) with the outcome l of the bind: the object localAddr
\* points to afterwards, the address handed to the bind, and (*Conn, error)
Listen(la, l) ==
    LET made == la = NilAddr                        \* lines 101-103: a new object
        addr == IF made THEN UDPAddr(IPv4zero, DefaultPort) ELSE la
        addr1 == IF addr.Port = 0                   \* lines 105-107: addr.Port = DefaultPort
                 THEN [addr EXCEPT !.Port = DefaultPort] ELSE addr
    IN  [localAddr |-> IF made THEN la ELSE addr1,  \* addr and localAddr are one object
         bound |-> addr1,
         conn |-> IF l.err # NoErr THEN Nil ELSE NewConn(l.conn).udpConn,
         err |-> IF l.err # NoErr THEN "failed to listen on UDP" ELSE NoErr,
         cause |-> l.err]

\* the addresses a caller passes
AddrIPs == {IPv4zero, "127.0.0.1", "10.0.0.1", "192.168.1.10", "::1"}
AddrPorts == {0, 1, 80, 5000, DefaultPort - 1, DefaultPort, DefaultPort + 1, 65535}

LRet(op, before, r) ==
    [op |-> op, before |-> before, bound |-> r.bound, conn |-> r.conn, err |-> r.err,
     cause |-> r.cause]

NoListen ==
    LRet("init", NilAddr, [bound |-> NilAddr, conn |-> Nil, err |-> NoCall, cause |-> NoErr])

LInit ==
    /\ localAddr = NilAddr
    /\ lret = NoListen

\* localAddr = &net.UDPAddr{IP: ip, Port: port}, or localAddr = nil
DoMakeAddr ==
    /\ localAddr' \in {NilAddr} \cup {UDPAddr(ip, port) : ip \in AddrIPs, port \in AddrPorts}
    /\ localAddr' # localAddr
    /\ lret' = [NoListen EXCEPT !.op = "assign"]

\* conn, err := vban.Listen(localAddr)
DoListen ==
    \E l \in ListenUDP(Listen(localAddr, [conn |-> Nil, err |-> NoErr]).bound) :
        LET r == Listen(localAddr, l)
        IN  /\ localAddr' = r.localAddr
            /\ lret' = LRet("Listen", localAddr, r)

-----------------------------------------------------------------------------
(* The parts of the state a scenario leaves alone.                         *)

HIdle ==
    /\ h = Header0
    /\ hret = HRet("init", Nil, NoErr)

PIdle ==
    /\ pk = NilPacket
    /\ wire = NilSlice
    /\ qk = NilPacket
    /\ pret = PRet("init", Nil, NoErr)
    /\ nwrites = 0

CIdle ==
    /\ udpConn = Nil
    /\ sock = NewSocket(Nil)
    /\ readBuffer = NilSlice
    /\ kept = NilPacket
    /\ cpc = Idle
    /\ spc = Idle
    /\ rpc = Idle
    /\ cret = CRet(NoCall, NoErr, << >>)
    /\ sret = SRet(NoCall, NoErr, << >>, NoWrite)
    /\ rret = NoReceive

LIdle ==
    /\ localAddr = NilAddr
    /\ lret = NoListen

-----------------------------------------------------------------------------
(* The specifications.  Spec runs the header operations on one Header,     *)
(* PacketSpec the packet operations on the caller's buffers, ConnSpec the  *)
(* three goroutines on one Conn, ListenSpec a caller that builds addresses *)
(* and passes them to Listen.  ConnLiveSpec adds what the runtime's     *)
(* network poller and scheduler guarantee to a goroutine inside a read on  *)
(* a closed socket: the read eventually returns.  Nothing is assumed about *)
(* when callers call or when datagrams arrive.                             *)

Init == HInit /\ PIdle /\ heap = << >> /\ CIdle /\ LIdle

Next ==
    \/ DoNewHeader /\ UNCHANGED <<pvars, cvars, lvars>>
    \/ DoSetStreamName /\ UNCHANGED <<pvars, cvars, lvars>>
    \/ DoSetSamplesPerFrame /\ UNCHANGED <<pvars, cvars, lvars>>
    \/ DoSetChannels /\ UNCHANGED <<pvars, cvars, lvars>>
    \/ DoSetAudioFormat /\ UNCHANGED <<pvars, cvars, lvars>>
    \/ DoAssignFields /\ UNCHANGED <<pvars, cvars, lvars>>
    \/ DoHeaderMarshalBinary /\ UNCHANGED <<pvars, cvars, lvars>>
    \/ DoHeaderUnmarshalBinary /\ UNCHANGED <<pvars, cvars, lvars>>
    \/ DoUnmarshalHeaderBytes /\ UNCHANGED <<pvars, cvars, lvars>>

Spec == Init /\ [][Next]_vars

PacketInit == PInit /\ HIdle /\ CIdle /\ LIdle

PacketNext ==
    \/ DoNewPacket /\ UNCHANGED <<hvars, cvars, lvars>>
    \/ DoReplaceData /\ UNCHANGED <<hvars, cvars, lvars>>
    \/ DoPacketMarshalBinary /\ UNCHANGED <<hvars, cvars, lvars>>
    \/ DoUnmarshalBinary /\ UNCHANGED <<hvars, cvars, lvars>>
    \/ DoWrite /\ UNCHANGED <<hvars, cvars, lvars>>

PacketSpec == PacketInit /\ [][PacketNext]_vars

kvars == <<h, hret, pk, wire, qk, pret, nwrites>>

ConnInit == CInit /\ HIdle /\ PIdle /\ LIdle

ConnNext ==
    \/ DoClose /\ UNCHANGED <<kvars, lvars>>
    \/ DoCloseSock /\ UNCHANGED <<kvars, lvars>>
    \/ DoCloseMark /\ UNCHANGED <<kvars, lvars>>
    \/ DoSend /\ UNCHANGED <<kvars, lvars>>
    \/ DoSendWriteToUDP /\ UNCHANGED <<kvars, lvars>>
    \/ DoSendRemoteAddr /\ UNCHANGED <<kvars, lvars>>
    \/ DoSendWrite /\ UNCHANGED <<kvars, lvars>>
    \/ DoReceive /\ UNCHANGED <<kvars, lvars>>
    \/ DoReadFromUDP /\ UNCHANGED <<kvars, lvars>>
    \/ DoReadDatagram /\ UNCHANGED <<kvars, lvars>>
    \/ DoReadClosed /\ UNCHANGED <<kvars, lvars>>

ConnSpec == ConnInit /\ [][ConnNext]_vars

ConnFairness == WF_vars(DoReadClosed /\ UNCHANGED <<kvars, lvars>>)

ConnLiveSpec == ConnSpec /\ ConnFairness

ListenInit == LInit /\ HIdle /\ PIdle /\ heap = << >> /\ CIdle

ListenNext ==
    \/ DoMakeAddr /\ UNCHANGED <<hvars, pvars, cvars>>
    \/ DoListen /\ UNCHANGED <<hvars, pvars, cvars>>

ListenSpec == ListenInit /\ [][ListenNext]_vars


-----------------------------------------------------------------------------
(* Header codec properties (checked under Spec).                           *)

\* the value of four bytes read least significant byte first
LE4(b, at) == b[at] + 256 * b[at + 1] + 65536 * b[at + 2] + 16777216 * b[at + 3]

HasZero(s) == \E i \in 1..Len(s) : s[i] = 0

\* C3: header round trip.  For every Header h whose magic is HeaderMagic,
\* MarshalBinary succeeds, and UnmarshalBinary of its output into any receiver
\* succeeds and leaves the receiver equal to h in every field.
C3_HeaderRoundTrip ==
    (/\ hret.op = "Header.UnmarshalBinary"
     /\ h.VBAN = HeaderMagic
     /\ hret.data = HeaderMarshalBinary(h).bytes)
    => /\ HeaderMarshalBinary(h).err = NoErr
       /\ hret.err = NoErr
       /\ hret.hdr.VBAN = h.VBAN
       /\ hret.hdr.FormatSR = h.FormatSR
       /\ hret.hdr.FormatNbs = h.FormatNbs
       /\ hret.hdr.FormatNbc = h.FormatNbc
       /\ hret.hdr.FormatBit = h.FormatBit
       /\ \A i \in 1..MaxStreamNameLen : hret.hdr.StreamName[i] = h.StreamName[i]
       /\ hret.hdr.NuFrame = h.NuFrame
       /\ hret.hdr = h

\* a full 16-byte name, distinct format bytes and a large frame counter decoded
\* into a receiver that held other values
C3_Witness ==
    /\ hret.op = "Header.UnmarshalBinary"
    /\ h.VBAN = HeaderMagic
    /\ hret.data = HeaderMarshalBinary(h).bytes
    /\ hret.recv = JunkHeader
    /\ h.FormatNbs # h.FormatNbc
    /\ h.NuFrame = 16909060
    /\ ~HasZero(h.StreamName)
    /\ hret.err = NoErr

\* C5 as stated: MarshalBinary always emits 28 bytes whose first four are the
\* ASCII bytes 'V', 'B', 'A', 'N', followed by FormatSR, FormatNbs, FormatNbc,
\* FormatBit, the 16 name bytes and NuFrame least significant byte first.
C5_Original ==
    hret.op = "Header.MarshalBinary"
    => /\ hret.err = NoErr
       /\ Len(hret.bytes) = 28
       /\ SubSeq(hret.bytes, 1, 4) = << 86, 66, 65, 78 >>
       /\ SubSeq(hret.bytes, 5, 8) = << h.FormatSR, h.FormatNbs, h.FormatNbc, h.FormatBit >>
       /\ SubSeq(hret.bytes, 9, 24) = h.StreamName
       /\ LE4(hret.bytes, 25) = h.NuFrame

\* C5, amended: MarshalBinary always emits 28 bytes; bytes 0-3 are the VBAN field
\* least significant byte first, whatever it holds (MarshalBinary does not check
\* it), and they are 'V', 'B', 'A', 'N' exactly when the field is HeaderMagic;
\* the other bytes are laid out as stated.
C5_Layout ==
    hret.op = "Header.MarshalBinary"
    => /\ hret.err = NoErr
       /\ Len(hret.bytes) = 28
       /\ \A i \in 1..28 : hret.bytes[i] \in Byte
       /\ LE4(hret.bytes, 1) = h.VBAN
       /\ (h.VBAN = HeaderMagic <=> SubSeq(hret.bytes, 1, 4) = << 86, 66, 65, 78 >>)
       /\ SubSeq(hret.bytes, 5, 8) = << h.FormatSR, h.FormatNbs, h.FormatNbc, h.FormatBit >>
       /\ SubSeq(hret.bytes, 9, 24) = h.StreamName
       /\ LE4(hret.bytes, 25) = h.NuFrame

\* a valid header with a frame counter of four different bytes was marshalled
C5_Witness ==
    /\ hret.op = "Header.MarshalBinary"
    /\ h.VBAN = HeaderMagic
    /\ h.NuFrame = 16909060
    /\ hret.bytes[25] = 4
    /\ hret.bytes[28] = 1
    /\ ~HasZero(h.StreamName)

\* C6: magic rejection.  Decoding an input of at least 28 bytes whose first four
\* bytes are not the magic fails, for Header.UnmarshalBinary and for the packet
\* UnmarshalBinary, which then returns no Packet; with the magic in place no value
\* of the other header bytes makes a decode fail.
C6_MagicRejection ==
    (/\ hret.op \in {"Header.UnmarshalBinary", "UnmarshalBinary"}
     /\ Len(hret.data) >= 28)
    => IF SubSeq(hret.data, 1, 4) # << 86, 66, 65, 78 >>
       THEN hret.err # NoErr /\ hret.pkt = NilPacket
       ELSE hret.err = NoErr /\ (hret.op = "UnmarshalBinary" => hret.pkt # NilPacket)

\* an encoding with one byte of the magic changed was refused by the packet
\* decoder, and an intact one with non-zero fields was accepted
C6_Witness ==
    /\ hret.op = "UnmarshalBinary"
    /\ Len(hret.data) >= 28
    /\ h.VBAN = HeaderMagic
    /\ hret.data = Corrupt(HeaderMarshalBinary(h).bytes, 3)
    /\ hret.err # NoErr
    /\ h.FormatBit = 255

\* C9 as stated: the setters fail for 0 and leave the header unchanged; for every
\* n in 1..256 they succeed and store n-1, and the accessor then returns n; the
\* accessor returns b+1, a value in 1..256, for every stored byte b.
C9_Claim ==
    /\ hret.op = "SetSamplesPerFrame"
        => IF hret.arg = 0 THEN hret.err # NoErr /\ h = hret.recv
           ELSE hret.arg \in 1..256
                => hret.err = NoErr /\ h.FormatNbs = hret.arg - 1
                   /\ SamplesPerFrame(h) = hret.arg
    /\ hret.op = "SetChannels"
        => IF hret.arg = 0 THEN hret.err # NoErr /\ h = hret.recv
           ELSE hret.arg \in 1..256
                => hret.err = NoErr /\ h.FormatNbc = hret.arg - 1
                   /\ Channels(h) = hret.arg
    /\ SamplesPerFrame(h) = h.FormatNbs + 1
    /\ Channels(h) = h.FormatNbc + 1

\* C10 as stated: after SetStreamName(name), GetStreamName returns name for every
\* name of fewer than 16 bytes, and all 16 bytes of a 16-byte name with no zero byte.
C10_Original ==
    hret.op = "SetStreamName"
    => /\ Len(hret.arg) < 16 => GetStreamName(h) = hret.arg
       /\ (Len(hret.arg) = 16 /\ ~HasZero(hret.arg)) => GetStreamName(h) = hret.arg

\* C10, amended: after SetStreamName(name), GetStreamName returns name for every
\* name of fewer than 16 bytes that holds no zero byte, and all 16 bytes of a
\* 16-byte name with no zero byte.
C10_StreamNameRoundTrip ==
    hret.op = "SetStreamName"
    => /\ (Len(hret.arg) < 16 /\ ~HasZero(hret.arg)) => GetStreamName(h) = hret.arg
       /\ (Len(hret.arg) = 16 /\ ~HasZero(hret.arg))
            => GetStreamName(h) = hret.arg /\ Len(GetStreamName(h)) = 16

\* a 16-byte name without a zero byte was set
C10_Witness ==
    /\ hret.op = "SetStreamName"
    /\ Len(hret.arg) = 16
    /\ ~HasZero(hret.arg)
    /\ Len(GetStreamName(h)) = 16

\* the first min(16, len(name)) bytes of name, then zero bytes up to 16
NameField(name) ==
    SubSeq(name, 1, Min(MaxStreamNameLen, Len(name)))
    \o Zeros(MaxStreamNameLen - Min(MaxStreamNameLen, Len(name)))

\* the field right after a call that sets the name
C11_AfterSet ==
    /\ hret.op = "SetStreamName" => h.StreamName = NameField(hret.arg)
    /\ hret.op = "NewHeader" => h.StreamName = NameField(hret.arg[2])

\* no other operation on the Header writes the field
C11_KeptStep ==
    hret'.op \notin {"SetStreamName", "NewHeader"} => h'.StreamName = h.StreamName

\* C11: no stale name bytes.  After every SetStreamName and after NewHeader,
\* whatever the Header held before (a longer name included), the 16-byte
\* StreamName field is the first min(16, len(name)) bytes of the name just
\* set followed only by zero bytes, and it stays so until the next call
\* that sets a name: no byte of an earlier name survives.
C11_NoStaleNameBytes == []C11_AfterSet /\ [][C11_KeptStep]_vars

\* a 1-byte name was set on a Header that held a full 16-byte name
C11_Witness ==
    /\ hret.op = "SetStreamName"
    /\ Len(hret.arg) = 1
    /\ hret.arg[1] # 0
    /\ ~HasZero(hret.recv.StreamName)
    /\ h.StreamName = hret.arg \o Zeros(MaxStreamNameLen - 1)

\* C14 as stated: for every SubProtocol value sp and every name passed to
\* NewHeader, the Header it returns has the magic, sp's top three bits as
\* its sub-protocol, rate index 0 (the low five bits of FormatSR are zero),
\* the name written as SetStreamName writes it, and FormatNbs, FormatNbc,
\* FormatBit and NuFrame zero.
C14_Claim ==
    hret.op = "NewHeader"
    => /\ h.VBAN = HeaderMagic
       /\ SubProtocol(h) = BitAnd(hret.arg[1], 224)
       /\ SRIndex(h) = 0
       /\ h.FormatSR % 32 = 0
       /\ h.StreamName = SetStreamName(Header0, hret.arg[2]).StreamName
       /\ h.FormatNbs = 0
       /\ h.FormatNbc = 0
       /\ h.FormatBit = 0
       /\ h.NuFrame = 0

\* C18 as stated: a failed header decode is not partially applied.  Whenever
\* Header.UnmarshalBinary returns an error (input shorter than 28 bytes, or
\* magic mismatch), every field of the receiver, VBAN included, holds the
\* value it had before the call.
C18_Claim ==
    (hret.op = "Header.UnmarshalBinary" /\ hret.err # NoErr)
    => /\ hret.hdr.VBAN = hret.recv.VBAN
       /\ hret.hdr.FormatSR = hret.recv.FormatSR
       /\ hret.hdr.FormatNbs = hret.recv.FormatNbs
       /\ hret.hdr.FormatNbc = hret.recv.FormatNbc
       /\ hret.hdr.FormatBit = hret.recv.FormatBit
       /\ hret.hdr.StreamName = hret.recv.StreamName
       /\ hret.hdr.NuFrame = hret.recv.NuFrame

-----------------------------------------------------------------------------
(* Packet framing properties (checked under PacketSpec).                   *)

\* the decoded packet equals the original and has storage of its own
C4_RoundTripState ==
    (/\ pret.op = "UnmarshalBinary"
     /\ pk # NilPacket
     /\ wire # NilSlice
     /\ pret.arg = wire
     /\ pk.Header.VBAN = HeaderMagic
     /\ pk.Data.len <= MaxPacketDataSize)
    =>    /\ pret.err = NoErr
          /\ qk # NilPacket
          /\ qk.Header = pk.Header
          /\ View(heap, qk.Data) = View(heap, pk.Data)
          /\ qk.Data.arr \notin {pk.Data.arr, wire.arr}

\* a write through a buffer of the caller leaves the decoded payload alone
C4_WriteStep ==
    (/\ qk # NilPacket
     /\ pret'.op = "write"
     /\ pret'.arg[1] \in {"data", "wire", "rx"})
    => View(heap', qk'.Data) = View(heap, qk.Data)

\* C4: packet round trip.  For a Packet p with a valid header and a payload of
\* 0..1436 bytes, UnmarshalBinary of p.MarshalBinary() succeeds and returns a
\* Packet with p's header and payload bytes, whose payload shares storage with
\* neither p's payload nor the marshalled buffer: a later write through either
\* (or through any other buffer of the caller) leaves the returned payload as it was.
C4_PacketRoundTrip == []C4_RoundTripState /\ [][C4_WriteStep]_vars

\* a full 1436-byte payload came back from the round trip and the caller then
\* overwrote the first payload byte of the marshalled buffer
C4_Witness ==
    /\ pret.op = "write"
    /\ pret.arg = << "wire", HeaderSize >>
    /\ qk # NilPacket
    /\ pk # NilPacket
    /\ pk.Header.VBAN = HeaderMagic
    /\ qk.Data.len = MaxPacketDataSize
    /\ View(heap, qk.Data) = View(heap, pk.Data)

\* the bytes of an input begin with 'V', 'B', 'A', 'N'
StartsWithMagic(bytes) == Len(bytes) >= 4 /\ SubSeq(bytes, 1, 4) = << 86, 66, 65, 78 >>

\* C7: length bounds of the packet decoder.  An input that starts with the magic
\* is accepted if and only if it has 28..1464 bytes, and then the payload has
\* len(input) - 28 bytes; inputs of at most 27 or at least 1465 bytes fail and
\* return no Packet.
C7_LengthBounds ==
    pret.op = "UnmarshalBinary"
    => LET n == pret.arg.len
       IN  /\ StartsWithMagic(View(heap, pret.arg))
                => (pret.err = NoErr <=> (28 <= n /\ n <= 1464))
           /\ (n <= 27 \/ n >= 1465) => pret.err # NoErr
           /\ pret.err = NoErr
                => qk # NilPacket /\ qk.Data.len = n - 28
                   /\ Len(View(heap, qk.Data)) = n - 28
           /\ pret.err # NoErr => qk = NilPacket

\* a 1464-byte input with the magic was accepted with a 1436-byte payload
C7_Witness ==
    /\ pret.op = "UnmarshalBinary"
    /\ pret.arg.len = 1464
    /\ pret.arg.arr = RxArr
    /\ pret.err = NoErr
    /\ qk # NilPacket
    /\ qk.Data.len = 1436

\* C8: the payload bound on the send side.  NewPacket fails if and only if
\* len(data) > 1436; Packet.MarshalBinary fails if and only if the packet's
\* current payload is longer than 1436 bytes, also after Data was replaced; what
\* MarshalBinary returns has 28 + len(payload) <= 1464 bytes.
C8_PayloadBound ==
    /\ pret.op = "NewPacket"
        => /\ pret.err # NoErr <=> pret.arg > 1436
           /\ pret.err # NoErr <=> pk = NilPacket
           /\ pret.err = NoErr => pk.Data.len = pret.arg
    /\ pret.op = "MarshalBinary"
        => /\ pret.err # NoErr <=> pk.Data.len > 1436
           /\ pret.err # NoErr => wire = NilSlice
           /\ pret.err = NoErr
                => /\ wire.len = 28 + pk.Data.len
                   /\ wire.len <= 1464
                   /\ Len(View(heap, wire)) = wire.len

\* MarshalBinary refused a packet whose Data had been replaced by 1437 bytes
C8_Witness ==
    /\ pret.op = "MarshalBinary"
    /\ pk # NilPacket
    /\ pk.Data.len = 1437
    /\ pret.err # NoErr

-----------------------------------------------------------------------------
(* The endpoint's life cycle.                                              *)

\* a Close call has returned
Closed == cret.err # NoCall

ClosedSend == SRet("connection is closed", NoErr, << >>, NoWrite)

ClosedReceive ==
    RRet([pkt |-> NilPacket, addr |-> Nil, err |-> "connection is closed", cause |-> NoErr],
         << >>, FALSE, NoDatagram)

C1_Terminal == Closed => udpConn = Nil

C1_SendStep ==
    (Closed /\ spc.at = "idle" /\ << spc, sret >>' # << spc, sret >>)
        => (spc' = Idle /\ sret' = ClosedSend /\ sock' = sock /\ udpConn' = Nil)

C1_ReceiveStep ==
    (Closed /\ rpc.at = "idle" /\ << rpc, rret >>' # << rpc, rret >>)
        => (rpc' = Idle /\ rret' = ClosedReceive /\ sock' = sock /\ udpConn' = Nil)

C1_CloseStep ==
    (Closed /\ cpc.at = "idle" /\ << cpc, cret >>' # << cpc, cret >>)
        => (cpc' = Idle /\ cret' = CRet(NoErr, NoErr, << >>) /\ sock' = sock
            /\ udpConn' = Nil)

\* C1: Closed is terminal and Close is idempotent.  Once a Close call has
\* returned, the Conn's udpConn field is nil and stays nil (nothing returns
\* the Conn to Open); every Send and every Receive called from then on
\* returns the "connection is closed" error in its first step, having
\* called no method of the socket and without blocking; and every further
\* Close returns nil, again without a call to the socket.
C1_ClosedIsTerminal ==
    /\ [](C1_Terminal)
    /\ [][C1_SendStep /\ C1_ReceiveStep /\ C1_CloseStep]_vars

\* after a first Close, a second Close, a Send and a Receive have all returned
C1_Witness ==
    /\ Closed
    /\ udpConn = Nil
    /\ cret = CRet(NoErr, NoErr, << >>)
    /\ sret = ClosedSend
    /\ rret = ClosedReceive
    /\ sock.closed

\* a Receive that began to read on the open socket is still inside the
\* read, and Close has executed its call to the socket
C2_Blocked ==
    /\ rpc.at = "reading"
    /\ rpc.open
    /\ cpc.at = "c156" \/ Closed

C2_ClosedFailure ==
    /\ rpc = Idle
    /\ rret.pkt = NilPacket
    /\ rret.addr = Nil
    /\ rret.err = "connection closed"
    /\ rret.cause = ErrClosed
    /\ rret.waited

C2_ReturnStep ==
    (C2_Blocked /\ rpc' # rpc) => C2_ClosedFailure'

\* C2: if a Receive is blocked in the socket read on an Open endpoint and
\* another goroutine's Close closes the socket, the blocked Receive
\* eventually returns, and what it returns is the "connection closed"
\* failure wrapping net.ErrClosed: a nil packet and a nil address, never a
\* packet.  (The two goroutines of the claim are the receiving and the
\* closing one; a third goroutine whose Send races with the Close can bring
\* the whole process down first, which is the only other way out.)
C2_CloseUnblocksReceive ==
    /\ C2_Blocked ~> (C2_ClosedFailure \/ Crashed)
    /\ [][C2_ReturnStep]_vars

\* the blocked Receive has returned its failure while the Conn was closing
C2_Witness ==
    /\ C2_ClosedFailure
    /\ sock.closed
    /\ cpc.at = "c156" \/ Closed

-----------------------------------------------------------------------------
(* Send and Receive on the endpoint (checked under ConnSpec).              *)

\* the failures of a write that come from the network or from a concurrent
\* Close, not from the choice of the destination
WriteFailures == {ErrClosed, ErrUnreachable, ErrRefused}

\* C12 as stated: destination selection of Send.  A Send with a non-nil addr
\* puts its datagram on the network addressed to addr, whether the socket
\* is bound (Listen) or connected (Dial) or adopted: it fails only as a
\* write can fail on any socket.  A Send with a nil addr writes to the
\* socket's remote address if it has one, and otherwise fails having
\* written nothing.
C12_Claim ==
    /\ sret.calls = << "WriteToUDP" >>
        => IF sret.err = NoErr
           THEN sret.wrote.to = "peer" /\ sret.wrote.n > 0
           ELSE sret.cause \in WriteFailures /\ sret.wrote = NoWrite
    /\ sret.calls = << "RemoteAddr", "Write" >>
        => /\ sock.remote # Nil
           /\ IF sret.err = NoErr
              THEN sret.wrote.to = sock.remote /\ sret.wrote.n > 0
              ELSE sret.cause \in WriteFailures /\ sret.wrote = NoWrite
    /\ sret.calls = << "RemoteAddr" >>
        => sock.remote = Nil /\ sret.err # NoErr /\ sret.wrote = NoWrite

\* a Receive has returned
Received == rret.err # NoCall

\* the datagram is one Receive does not accept: empty, longer than a VBAN
\* packet, shorter than a header, or without the magic
Rejected(d) ==
    \/ d.len = 0
    \/ d.len > MaxVBANPacketSize
    \/ d.len < HeaderSize
    \/ d.magic # HeaderMagic

\* C13: the shape of Receive's result.  The packet is non-nil if and only if
\* the error is nil.  When the read took a datagram and Receive rejected it
\* (empty, oversized, too short or bad magic) the result is a nil packet,
\* the sender's address and an error; when it accepted it, the packet and
\* the sender's address.  When the read itself failed, or the endpoint was
\* Closed at the call, the result is a nil packet, a nil address and an error.
C13_ResultShape ==
    Received
    => /\ rret.pkt # NilPacket <=> rret.err = NoErr
       /\ (rret.got.kind = "dgram" /\ Rejected(rret.got))
            => rret.pkt = NilPacket /\ rret.addr = rret.got.from /\ rret.addr # Nil
               /\ rret.err # NoErr
       /\ (rret.got.kind = "dgram" /\ ~Rejected(rret.got))
            => rret.pkt # NilPacket /\ rret.addr = rret.got.from /\ rret.err = NoErr
       /\ rret.got.kind # "dgram"
            => rret.pkt = NilPacket /\ rret.addr = Nil /\ rret.err # NoErr
       /\ rret.calls = << >> => rret.got.kind = "none" /\ rret.err = "connection is closed"

\* a datagram of header size with a bad magic was read and rejected, and the
\* failure came with its sender's address
C13_Witness ==
    /\ Received
    /\ rret.got.kind = "dgram"
    /\ rret.got.magic = BadMagic
    /\ rret.got.len = HeaderSize
    /\ rret.pkt = NilPacket
    /\ rret.addr = "peer"
    /\ rret.err = "failed to unmarshal received data as VBAN packet"

\* the packets Receive has returned that the caller holds
HeldPackets == {kept, rret.pkt} \ {NilPacket}

\* no held payload is a slice of the read buffer's array
C15_OwnStorage == \A p \in HeldPackets : p.Data.arr # readBuffer.arr

\* a step leaves the payload bytes of every packet that stays held as they were
C15_HeldStep ==
    \A p \in HeldPackets :
        p \in {kept', rret'.pkt} => View(heap', p.Data) = View(heap, p.Data)

\* C15: received payloads are not views into the receive buffer.  The Data
\* of a packet an earlier Receive returned has backing storage other than
\* the Conn's read buffer, and no later step changes its bytes: not a later
\* Receive, whose read overwrites the shared buffer, nor Close, nor Send.
C15_PayloadIndependent == []C15_OwnStorage /\ [][C15_HeldStep]_vars

\* the caller holds the 1436-byte payload of an earlier Receive, intact,
\* after a later Receive read a longer datagram with other payload bytes
\* into the buffer and Close returned
C15_Witness ==
    /\ kept # NilPacket
    /\ kept.Data.len = MaxPacketDataSize
    /\ View(heap, kept.Data)[1] = 1 + (MaxVBANPacketSize % 251)
    /\ Received
    /\ rret.got.kind = "dgram"
    /\ rret.got.len = MaxVBANPacketSize + 1
    /\ View(heap, readBuffer)[HeaderSize + 1] = 1 + ((MaxVBANPacketSize + 1) % 251)
    /\ Closed

\* C16: oversize detection in Receive.  The read buffer holds
\* MaxVBANPacketSize + 1 = 1465 bytes, so the read of a datagram of 1465
\* bytes or more returns more than 1464 bytes: Receive reports it as an
\* oversized packet and returns no packet, never the datagram's first 1464
\* bytes as a packet.  A zero-byte datagram is reported as an error.  Every
\* packet Receive returns came from a datagram of 28..1464 bytes and has
\* datagram size - 28 <= 1436 bytes of Data.
C16_OversizeDetected ==
    /\ (Received /\ rret.got.kind = "dgram")
        => /\ rret.got.len >= 1465
                => rret.err = "received oversized packet" /\ rret.pkt = NilPacket
           /\ rret.got.len = 0
                => rret.err = "received empty UDP packet" /\ rret.pkt = NilPacket
           /\ rret.err = NoErr
                => /\ rret.pkt # NilPacket
                   /\ 28 <= rret.got.len /\ rret.got.len <= 1464
                   /\ rret.pkt.Data.len = rret.got.len - 28
                   /\ Len(View(heap, rret.pkt.Data)) = rret.got.len - 28
                   /\ rret.pkt.Data.len <= 1436
    /\ (Received /\ rret.err = NoErr) => rret.got.kind = "dgram"

\* a datagram longer than the whole read buffer was reported as oversized
C16_Witness ==
    /\ Received
    /\ rret.got.kind = "dgram"
    /\ readBuffer.len = MaxVBANPacketSize + 1
    /\ rret.got.len > readBuffer.len
    /\ rret.err = "received oversized packet"
    /\ rret.pkt = NilPacket
    /\ rret.addr = rret.got.from

\* C17 as stated: Close racing with Send or Receive is safe.  In every
\* interleaving of a Close with a Send or a Receive of another goroutine on
\* the same Conn, the Send or Receive never calls WriteToUDP, RemoteAddr,
\* Write or ReadFromUDP through a udpConn field that Close has set to nil
\* after the operation's own nil check passed.
C17_Claim ==
    /\ spc.at = "nilcall" => spc.call \notin {"WriteToUDP", "RemoteAddr", "Write"}
    /\ rpc.at = "nilcall" => rpc.call # "ReadFromUDP"

-----------------------------------------------------------------------------
(* Listen (checked under ListenSpec).                                      *)

\* C19 as stated: Listen does not modify its argument.  For every non-nil
\* address the caller passes, one with Port 0 included, the address object
\* has the same IP and Port after Listen returned, with a Conn or with an
\* error, as before the call; the default port 6980 goes only into the
\* address that is bound.
C19_Claim ==
    (lret.op = "Listen" /\ lret.before # NilAddr)
    => /\ localAddr.IP = lret.before.IP
       /\ localAddr.Port = lret.before.Port
       /\ lret.bound.IP = lret.before.IP
       /\ lret.bound.Port = IF lret.before.Port = 0 THEN DefaultPort ELSE lret.before.Port

=============================================================================
